---- MODULE Spec2Model ----
(***************************************************************************)
(* A model of the Mython interpreter: the indentation-sensitive lexer      *)
(* (lexer.cpp), and the AST evaluator over the value runtime               *)
(* (statement.cpp, runtime.cpp).                                           *)
(***************************************************************************)
EXTENDS Integers, Sequences, FiniteSets, TLC

(***************************************************************************)
(* Bounds of the model.                                                    *)
(***************************************************************************)
\* longest input over the indentation alphabet CoreChars
MaxLen == 6
\* longest input over the whole alphabet AllChars
MaxShort == 3
\* longest run of the digit 9 offered as an input
MaxDigits == 11
\* number of NextToken calls made on one lexer
MaxCalls == 10

(***************************************************************************)
(* Characters.  A character is a one-character string; EOFc is the value   *)
(* istream::get / peek return on an exhausted stream.                      *)
(***************************************************************************)
EOFc == "EOF"
SP == " "
NL == "\n"
TAB == "\t"
QUOTE == "\""
APOS == "'"
BSL == "\\"
HASH == "#"

NUM_OF_SPACES_IN_INDENT == 2
INT_MAX == 2147483647

Digits == {"0", "1", "2", "3", "4", "5", "6", "7", "8", "9"}

Letters ==
    {"a", "b", "c", "d", "e", "f", "g", "h", "i", "j", "k", "l", "m",
     "n", "o", "p", "q", "r", "s", "t", "u", "v", "w", "x", "y", "z",
     "A", "B", "C", "D", "E", "F", "G", "H", "I", "J", "K", "L", "M",
     "N", "O", "P", "Q", "R", "S", "T", "U", "V", "W", "X", "Y", "Z"}

Puncts ==
    {"!", QUOTE, HASH, "$", "%", "&", APOS, "(", ")", "*", "+", ",", "-",
     ".", "/", ":", ";", "<", "=", ">", "?", "@", "[", BSL, "]", "^", "_",
     "{", "|", "}", "~"}
\* (the grave accent, also punctuation, cannot be written in a string here)

isdigit(c) == c \in Digits
isalpha(c) == c \in Letters
ispunct(c) == c \in Puncts

DigitVal(c) ==
    CASE c = "0" -> 0 [] c = "1" -> 1 [] c = "2" -> 2 [] c = "3" -> 3
      [] c = "4" -> 4 [] c = "5" -> 5 [] c = "6" -> 6 [] c = "7" -> 7
      [] c = "8" -> 8 [] c = "9" -> 9

\* the indentation alphabet, and the whole alphabet of the inputs
CoreChars == {SP, NL, "a", HASH}
AllChars == {SP, NL, "a", HASH, "=", TAB, QUOTE, "1", BSL}

StringsOver(chars, n) == UNION {[1..k -> chars] : k \in 0..n}
DigitRuns == {[i \in 1..k |-> "9"] : k \in 1..MaxDigits}
Inputs == StringsOver(CoreChars, MaxLen) \cup StringsOver(AllChars, MaxShort)
            \cup DigitRuns

(***************************************************************************)
(* Tokens: a tagged variant; ival is the payload of Number, sval the       *)
(* payload of Id, String and Char.                                         *)
(***************************************************************************)
Tok(t) == [type |-> t, ival |-> 0, sval |-> ""]
NumberTok(n) == [type |-> "Number", ival |-> n, sval |-> ""]
IdTok(w) == [type |-> "Id", ival |-> 0, sval |-> w]
StringTok(w) == [type |-> "String", ival |-> 0, sval |-> w]
CharTok(c) == [type |-> "Char", ival |-> 0, sval |-> c]

\* the value of ret before any token was handed out
NoToken == Tok("NoToken")

keywords_ ==
    [w \in {"class", "return", "if", "else", "def", "print", "and", "or",
            "not", "None", "True", "False"} |->
        CASE w = "class" -> Tok("Class") [] w = "return" -> Tok("Return")
          [] w = "if" -> Tok("If") [] w = "else" -> Tok("Else")
          [] w = "def" -> Tok("Def") [] w = "print" -> Tok("Print")
          [] w = "and" -> Tok("And") [] w = "or" -> Tok("Or")
          [] w = "not" -> Tok("Not") [] w = "None" -> Tok("None")
          [] w = "True" -> Tok("True") [] w = "False" -> Tok("False")]

(***************************************************************************)
(* The lexer as a record s: the stream (buf, pos: the next character to    *)
(* read), the members tokens_, is_start_line, indent, cur_indent, and      *)
(* status: "ok", or how the running call ended otherwise:                  *)
(*   "out_of_range"  std::stoi threw;                                      *)
(*   "hang"          the loop of ProcShielding never meets its exit        *)
(*                   condition (it appends to str until allocation fails). *)
(***************************************************************************)
NewLexer(in) ==
    [buf |-> in, pos |-> 1, tokens_ |-> <<>>, is_start_line |-> TRUE,
     indent |-> 0, cur_indent |-> 0, status |-> "ok"]

\* istream::peek, istream::get (the character is Peek, the stream after it
\* Get), istream::unget and istream::putback of the character just read
Peek(s) == IF s.pos <= Len(s.buf) THEN s.buf[s.pos] ELSE EOFc
Get(s) == IF s.pos <= Len(s.buf) THEN [s EXCEPT !.pos = @ + 1] ELSE s
Unget(s) == IF s.pos > 1 /\ s.pos <= Len(s.buf) + 1
            THEN [s EXCEPT !.pos = @ - 1] ELSE s

Emit(s, tok) == [s EXCEPT !.tokens_ = Append(@, tok)]

RECURSIVE FindNextToken(_)

ProcEndStream(s) ==
    IF s.is_start_line /\ s.cur_indent > 0
    THEN IF s.cur_indent < s.indent
         THEN Emit([s EXCEPT !.cur_indent = @ + 1], Tok("Indent"))
         ELSE IF s.cur_indent > s.indent
              THEN Emit([s EXCEPT !.cur_indent = @ - 1], Tok("Dedent"))
              ELSE s
    ELSE IF ~s.is_start_line
         THEN [Emit(s, Tok("Newline")) EXCEPT !.is_start_line = TRUE]
         ELSE Emit(s, Tok("Eof"))

\* the loop of ProcSpace: the stream after the run of spaces, and its length
RECURSIVE SkipSpaces(_, _)
SkipSpaces(s, space_count) ==
    IF Peek(s) = SP THEN SkipSpaces(Get(s), space_count + 1)
    ELSE [s |-> s, space_count |-> space_count]

ProcSpace(s) ==
    LET r == SkipSpaces(s, 1)
        s1 == IF r.s.is_start_line
              THEN [r.s EXCEPT !.indent = r.space_count \div NUM_OF_SPACES_IN_INDENT]
              ELSE r.s
    IN FindNextToken(s1)

ProcEndOfLine(s) ==
    IF s.is_start_line
    THEN FindNextToken([s EXCEPT !.is_start_line = TRUE])
    ELSE Emit([s EXCEPT !.indent = 0, !.is_start_line = TRUE], Tok("Newline"))

\* a ProcIndent that reaches the level of the line with one Indent
ProcIndentJumps(s) ==
    IF s.cur_indent < s.indent
    THEN Unget(Emit([s EXCEPT !.cur_indent = s.indent], Tok("Indent")))
    ELSE IF s.cur_indent > s.indent
         THEN Unget(Emit([s EXCEPT !.cur_indent = @ - 1], Tok("Dedent")))
         ELSE s

ProcIndent(s) ==
    IF s.cur_indent < s.indent
    THEN Unget(Emit([s EXCEPT !.cur_indent = @ + 1], Tok("Indent")))
    ELSE IF s.cur_indent > s.indent
         THEN Unget(Emit([s EXCEPT !.cur_indent = @ - 1], Tok("Dedent")))
         ELSE s

\* the loop of ProcNumber: the stream after the digits, and the digits
RECURSIVE ReadDigits(_, _)
ReadDigits(s, number) ==
    IF isdigit(Peek(s)) THEN ReadDigits(Get(s), Append(number, Peek(s)))
    ELSE [s |-> s, number |-> number]

\* std::stoi of a digit string: its value, or ok = FALSE when the value
\* does not fit an int (std::out_of_range)
RECURSIVE stoi(_, _)
stoi(number, acc) ==
    IF number = <<>> THEN [ok |-> TRUE, value |-> acc]
    ELSE LET d == DigitVal(Head(number))
         IN IF acc > (INT_MAX - d) \div 10
            THEN [ok |-> FALSE, value |-> 0]
            ELSE stoi(Tail(number), acc * 10 + d)

ProcNumber(s, cur_char) ==
    LET r == ReadDigits(s, <<cur_char>>)
        n == stoi(r.number, 0)
    IN IF n.ok
       THEN [Emit(r.s, NumberTok(n.value)) EXCEPT !.is_start_line = FALSE]
       ELSE [r.s EXCEPT !.status = "out_of_range"]

\* the loop of ProcWord
RECURSIVE ReadWord(_, _)
ReadWord(s, word) ==
    LET next_char == Peek(s)
    IN IF next_char = "_" \/ isalpha(next_char) \/ isdigit(next_char)
       THEN ReadWord(Get(s), word \o next_char)
       ELSE [s |-> s, word |-> word]

ProcWord(s, cur_char) ==
    LET r == ReadWord(s, cur_char)
    IN [Emit(r.s, IF r.word \in DOMAIN keywords_ THEN keywords_[r.word]
                  ELSE IdTok(r.word))
          EXCEPT !.is_start_line = FALSE]

\* the loop of ProcShielding; at the end of the stream next_char is never
\* the quote, get() consumes nothing, and the loop does not end
RECURSIVE ReadString(_, _, _)
ReadString(s, str, quotes) ==
    LET next_char == Peek(s)
    IN IF next_char = quotes THEN [s |-> s, str |-> str, ends |-> TRUE]
       ELSE IF next_char = EOFc THEN [s |-> s, str |-> str, ends |-> FALSE]
       ELSE IF next_char = BSL
            THEN LET s1 == Get(s)
                     esc == Peek(s1)
                     str1 == IF esc = APOS THEN str \o APOS
                             ELSE IF esc = QUOTE THEN str \o QUOTE
                             ELSE IF esc = "n" THEN str \o NL
                             ELSE IF esc = "t" THEN str \o TAB
                             ELSE str
                 IN ReadString(Get(s1), str1, quotes)
            ELSE ReadString(Get(s), str \o next_char, quotes)

ProcShielding(s, cur_char) ==
    LET r == ReadString(s, "", cur_char)
    IN IF r.ends
       THEN [Emit(Get(r.s), StringTok(r.str)) EXCEPT !.is_start_line = FALSE]
       ELSE [r.s EXCEPT !.status = "hang"]

\* std::getline: the stream after the rest of the line and its newline
RECURSIVE getline(_)
getline(s) ==
    IF Peek(s) = EOFc THEN s
    ELSE IF Peek(s) = NL THEN Get(s)
    ELSE getline(Get(s))

ProcComment(s) ==
    LET s1 == getline(s)
    IN IF Peek(s1) # EOFc
       THEN FindNextToken(Unget(s1))
       ELSE Emit(s1, Tok("Eof"))

FindNextToken(s) ==
    LET cur_char == Peek(s)
        s1 == Get(s)
    IN IF cur_char = EOFc THEN ProcEndStream(s1)
       ELSE IF cur_char = SP THEN ProcSpace(s1)
       ELSE IF cur_char = NL THEN ProcEndOfLine(s1)
       ELSE IF s1.cur_indent # s1.indent /\ s1.is_start_line THEN ProcIndent(s1)
       ELSE IF isdigit(cur_char) THEN ProcNumber(s1, cur_char)
       ELSE IF cur_char = "_" \/ isalpha(cur_char) \/ isdigit(cur_char)
            THEN ProcWord(s1, cur_char)
       ELSE IF cur_char = APOS \/ cur_char = QUOTE THEN ProcShielding(s1, cur_char)
       ELSE IF cur_char = HASH THEN ProcComment(s1)
       ELSE IF cur_char = "=" /\ Peek(s1) = "=" THEN Emit(Get(s1), Tok("Eq"))
       ELSE IF cur_char = "!" /\ Peek(s1) = "=" THEN Emit(Get(s1), Tok("NotEq"))
       ELSE IF cur_char = "<" /\ Peek(s1) = "=" THEN Emit(Get(s1), Tok("LessOrEq"))
       ELSE IF cur_char = ">" /\ Peek(s1) = "=" THEN Emit(Get(s1), Tok("GreaterOrEq"))
       ELSE IF ispunct(cur_char)
            THEN [Emit(s1, CharTok(cur_char)) EXCEPT !.is_start_line = FALSE]
       ELSE s1

\* the constructor
Lexer(in) == FindNextToken(NewLexer(in))

\* the lexer after the constructor and n calls of FindNextToken, stopping
\* at a call that does not return
RECURSIVE Run(_, _)
Run(s, n) ==
    IF n = 0 \/ s.status # "ok" THEN s ELSE Run(FindNextToken(s), n - 1)

(***************************************************************************)
(* The value runtime.  A value is a tagged variant held by an              *)
(* ObjectHolder: ival is the payload of Number, of Bool (0 or 1) and of    *)
(* ClassInstance (the identity of the instance object), sval the payload   *)
(* of String and the name of a Class.  The empty holder is NoneV.          *)
(***************************************************************************)
NoneV == [kind |-> "None", ival |-> 0, sval |-> ""]
NumberV(n) == [kind |-> "Number", ival |-> n, sval |-> ""]
StringV(w) == [kind |-> "String", ival |-> 0, sval |-> w]
BoolV(b) == [kind |-> "Bool", ival |-> IF b THEN 1 ELSE 0, sval |-> ""]
ClassV(name) == [kind |-> "Class", ival |-> 0, sval |-> name]
InstanceV(id) == [kind |-> "ClassInstance", ival |-> id, sval |-> ""]

\* a Closure: a map from names to values
EmptyClosure == [n \in {} |-> NoneV]
Bind(c, name, v) == [n \in DOMAIN c \cup {name} |-> IF n = name THEN v ELSE c[n]]

\* IsTrue with a number true only when it is positive
IsTrueOfPositive(object) ==
    IF object.kind = "None" THEN FALSE
    ELSE IF object.kind = "Number" THEN object.ival > 0
    ELSE IF object.kind = "String" THEN object.sval # ""
    ELSE IF object.kind = "Bool" THEN object.ival = 1
    ELSE FALSE

IsTrue(object) ==
    IF object.kind = "None" THEN FALSE
    ELSE IF object.kind = "Number" THEN object.ival # 0
    ELSE IF object.kind = "String" THEN object.sval # ""
    ELSE IF object.kind = "Bool" THEN object.ival = 1
    ELSE FALSE

(***************************************************************************)
(* AST nodes: op is the node class, name / num / ids / kids its members.   *)
(***************************************************************************)
Node(op, name, num, ids, kids) ==
    [op |-> op, name |-> name, num |-> num, ids |-> ids, kids |-> kids]

NumericConst(n) == Node("NumericConst", "", n, <<>>, <<>>)
StringConst(w) == Node("StringConst", w, 0, <<>>, <<>>)
VariableValue(var_name, dotted_ids) == Node("VariableValue", var_name, 0, dotted_ids, <<>>)
Assignment(var, rv) == Node("Assignment", var, 0, <<>>, <<rv>>)
FieldAssignment(object, field_name, rv) ==
    Node("FieldAssignment", field_name, 0, <<>>, <<object, rv>>)
PrintStmt(args) == Node("Print", "", 0, <<>>, args)
MethodCall(object, method, args) == Node("MethodCall", method, 0, <<>>, <<object>> \o args)
Compound(args) == Node("Compound", "", 0, <<>>, args)
Return(statement) == Node("Return", "", 0, <<>>, <<statement>>)
IfElse(condition, if_body, else_body) ==
    Node("IfElse", "", 0, <<>>, <<condition, if_body>> \o else_body)
\* the NewInstance node number id; it owns the ClassInstance number id
NewInstance(id, class, args) == Node("NewInstance", class, id, <<>>, args)
MethodBody(body) == Node("MethodBody", "", 0, <<>>, <<body>>)
\* the constant nodes of statement.h for True / False and for None
BoolConst(b) == Node("BoolConst", "", IF b THEN 1 ELSE 0, <<>>, <<>>)
NoneConst == Node("None", "", 0, <<>>, <<>>)
Stringify(argument) == Node("Stringify", "", 0, <<>>, <<argument>>)
Add(lhs, rhs) == Node("Add", "", 0, <<>>, <<lhs, rhs>>)
Or(lhs, rhs) == Node("Or", "", 0, <<>>, <<lhs, rhs>>)
And(lhs, rhs) == Node("And", "", 0, <<>>, <<lhs, rhs>>)
Not(argument) == Node("Not", "", 0, <<>>, <<argument>>)
\* the definition of the class named name
ClassDefinition(name) == Node("ClassDefinition", name, 0, <<>>, <<>>)
\* cmp is the name of the comparator cmp_ of the node
Comparison(cmp, lhs, rhs) == Node("Comparison", cmp, 0, <<>>, <<lhs, rhs>>)

(***************************************************************************)
(* The classes of the programs under check.                                *)
(*   Base       get(self): return 7                                        *)
(*   Pt(Base)   __init__(self, v): self.v = v                              *)
(*   A          m(self): print "A.m"                                       *)
(*              n(self, a): self.f = a; print "A.n"                        *)
(*              peek(self): return x                                       *)
(*              poke(self, a): x = a; self = a; return x                   *)
(*              say(self, tag, v): print tag; return v                     *)
(*   B(A)       m(self, a): print "B.m"                                    *)
(*   C(B)       k(self): print "C.k"                                       *)
(*   Num        __add__(self, o): print "add"; return o                    *)
(*              __lt__(self, o): return o                                  *)
(*              __str__(self): return "hi"                                 *)
(*   Odd(Num)   __str__(self): t = 1             (returns nothing)         *)
(*              __eq__(self, a, b): return a                               *)
(***************************************************************************)
Method(formal_params, body) == [formal_params |-> formal_params, body |-> body]

ClassNames == {"Base", "Pt", "A", "B", "C", "Num", "Odd"}

ClassParent(c) ==
    CASE c = "Pt" -> "Base"
      [] c = "B" -> "A"
      [] c = "C" -> "B"
      [] c = "Odd" -> "Num"
      [] OTHER -> ""

\* print "tag"
Tag(tag) == PrintStmt(<<StringConst(tag)>>)

MethodsOfA ==
    [m \in {"m", "n", "peek", "poke", "say"} |->
       CASE m = "m" -> Method(<<>>, MethodBody(Tag("A.m")))
         [] m = "n" ->
              Method(<<"a">>,
                     MethodBody(Compound(
                       <<FieldAssignment(VariableValue("self", <<>>), "f",
                                         VariableValue("a", <<>>)),
                         Tag("A.n")>>)))
         [] m = "peek" -> Method(<<>>, MethodBody(Return(VariableValue("x", <<>>))))
         [] m = "poke" ->
              Method(<<"a">>,
                     MethodBody(Compound(
                       <<Assignment("x", VariableValue("a", <<>>)),
                         Assignment("self", VariableValue("a", <<>>)),
                         Return(VariableValue("x", <<>>))>>)))
         [] m = "say" ->
              Method(<<"tag", "v">>,
                     MethodBody(Compound(
                       <<PrintStmt(<<VariableValue("tag", <<>>)>>),
                         Return(VariableValue("v", <<>>))>>)))]

MethodsOfNum ==
    [m \in {"__add__", "__lt__", "__str__"} |->
       CASE m = "__add__" ->
              Method(<<"o">>,
                     MethodBody(Compound(<<Tag("add"), Return(VariableValue("o", <<>>))>>)))
         [] m = "__lt__" -> Method(<<"o">>, MethodBody(Return(VariableValue("o", <<>>))))
         [] m = "__str__" -> Method(<<>>, MethodBody(Return(StringConst("hi"))))]

MethodsOfOdd ==
    [m \in {"__str__", "__eq__"} |->
       CASE m = "__str__" ->
              Method(<<>>,
                     MethodBody(Assignment("t", NumericConst(1))))
         [] m = "__eq__" ->
              Method(<<"a", "b">>, MethodBody(Return(VariableValue("a", <<>>))))]

ClassMethods(c) ==
    CASE c = "Base" -> [m \in {"get"} |-> Method(<<>>, MethodBody(Return(NumericConst(7))))]
      [] c = "Pt" ->
           [m \in {"__init__"} |->
              Method(<<"v">>,
                     MethodBody(FieldAssignment(VariableValue("self", <<>>), "v",
                                                VariableValue("v", <<>>))))]
      [] c = "A" -> MethodsOfA
      [] c = "B" -> [m \in {"m"} |-> Method(<<"a">>, MethodBody(Tag("B.m")))]
      [] c = "C" -> [m \in {"k"} |-> Method(<<>>, MethodBody(Tag("C.k")))]
      [] c = "Num" -> MethodsOfNum
      [] c = "Odd" -> MethodsOfOdd

\* the NewInstance nodes of the programs: the class and the arguments of each
NewInstanceNodes ==
    <<NewInstance(1, "Base", <<>>),
      NewInstance(2, "Pt", <<NumericConst(1)>>),
      NewInstance(3, "Pt", <<>>),
      NewInstance(4, "A", <<>>),
      NewInstance(5, "B", <<>>),
      NewInstance(6, "C", <<>>),
      NewInstance(7, "Num", <<>>),
      NewInstance(8, "Odd", <<>>)>>

InstanceIds == 1..Len(NewInstanceNodes)

\* cls_ of the instance id
InstanceClass(id) == NewInstanceNodes[id].name

NoMethod == Method(<<"?">>, Node("NoMethod", "", 0, <<>>, <<>>))

\* Class::GetMethod: the method, or NoMethod for nullptr
RECURSIVE GetMethod(_, _)
\* a lookup that asks the parent first
GetMethodParentFirst(c, name) ==
    IF ClassParent(c) # "" /\ GetMethod(ClassParent(c), name) # NoMethod
    THEN GetMethod(ClassParent(c), name)
    ELSE IF name \in DOMAIN ClassMethods(c) THEN ClassMethods(c)[name]
    ELSE NoMethod

GetMethod(c, name) ==
    IF name \in DOMAIN ClassMethods(c) THEN ClassMethods(c)[name]
    ELSE IF ClassParent(c) # "" THEN GetMethod(ClassParent(c), name)
    ELSE NoMethod

HasMethod(id, method, argument_count) ==
    LET m == GetMethod(InstanceClass(id), method)
    IN ~(m = NoMethod \/ Len(m.formal_params) # argument_count)

(***************************************************************************)
(* The evaluator.  Execute runs on a record e:                             *)
(*   closure  the Closure passed to Execute                                *)
(*   heap     the field map (a Closure) of every ClassInstance             *)
(*   out      the output stream of the Context                             *)
(*   flow     "normal": Execute returned val; "return": an ObjectHolder    *)
(*            (val) is being thrown by Return; "error": an exception (err) *)
(*            is being thrown                                              *)
(* An Execute that finds flow # "normal" after a sub-evaluation passes the *)
(* record on unchanged: the exception propagates.                          *)
(***************************************************************************)
Yield(e, v) == [e EXCEPT !.flow = "normal", !.val = v]
Throw(e, what) == [e EXCEPT !.flow = "error", !.err = what, !.val = NoneV]

\* The operators named ...After take the record e1 a sub-evaluation ended
\* with and model the code that follows that sub-evaluation.

RECURSIVE Execute(_, _)

\* the evaluation of a list of argument statements, in order
RECURSIVE ExecuteArgs(_, _, _)
ExecuteArgsAfter(args, e1, acc) ==
    IF e1.flow # "normal" THEN [e |-> e1, vals |-> acc]
    ELSE ExecuteArgs(Tail(args), e1, Append(acc, e1.val))

ExecuteArgs(args, e, acc) ==
    IF args = <<>> THEN [e |-> e, vals |-> acc]
    ELSE ExecuteArgsAfter(args, Execute(Head(args), e), acc)

ExecuteConst(n, e) ==
    IF n.op = "NumericConst" THEN Yield(e, NumberV(n.num))
    ELSE IF n.op = "BoolConst" THEN Yield(e, BoolV(n.num = 1))
    ELSE IF n.op = "None" THEN Yield(e, NoneV)
    ELSE Yield(e, StringV(n.name))

AssignmentAfter(n, e1) ==
    IF e1.flow # "normal" THEN e1
    ELSE [e1 EXCEPT !.closure = Bind(@, n.name, e1.val)]

AssignmentExecute(n, e) == AssignmentAfter(n, Execute(n.kids[1], e))

\* the loop of VariableValue::Execute over dotted_ids_
RECURSIVE FollowDottedIds(_, _, _)
FollowDottedIds(ids, object_holder, e) ==
    IF ids = <<>> THEN Yield(e, object_holder)
    ELSE IF object_holder.kind = "ClassInstance"
         THEN IF Head(ids) \in DOMAIN e.heap[object_holder.ival]
              THEN FollowDottedIds(Tail(ids), e.heap[object_holder.ival][Head(ids)], e)
              ELSE Throw(e, "out_of_range")
         ELSE FollowDottedIds(Tail(ids), object_holder, e)

VariableValueExecute(n, e) ==
    IF n.name \in DOMAIN e.closure
    THEN FollowDottedIds(n.ids, e.closure[n.name], e)
    ELSE Throw(e, "Variable is not found")

\* the loop of ClassInstance::Call that binds the formal parameters
RECURSIVE BindParams(_, _, _, _)
BindParams(closure, formal_params, actual_args, i) ==
    IF i > Len(actual_args) THEN closure
    ELSE BindParams(Bind(closure, formal_params[i], actual_args[i]),
                    formal_params, actual_args, i + 1)

\* a Call whose caller goes on with the closure of the body
CallAfterKeepsClosure(e, e1) == e1

\* the return of ClassInstance::Call: the caller goes on with its closure
CallAfter(e, e1) == [e1 EXCEPT !.closure = e.closure]

\* a Call that binds self to a copy of the instance: what the body writes
\* through self is gone when the call returns
CallAfterOnCopy(id, e, e1) == [e1 EXCEPT !.closure = e.closure, !.heap[id] = e.heap[id]]

CallMethodOnCopy(id, m, actual_args, e) ==
    CallAfterOnCopy(id, e,
                    Execute(m.body,
                            [e EXCEPT !.closure =
                               BindParams(Bind(EmptyClosure, "self", InstanceV(id)),
                                          m.formal_params, actual_args, 1)]))

CallMethod(id, m, actual_args, e) ==
    CallAfter(e, Execute(m.body,
                         [e EXCEPT !.closure =
                            BindParams(Bind(EmptyClosure, "self", InstanceV(id)),
                                       m.formal_params, actual_args, 1)]))

\* a Call that returns None where the method is not found
CallOrNone(id, method, actual_args, e) ==
    IF ~HasMethod(id, method, Len(actual_args))
    THEN Yield(e, NoneV)
    ELSE CallMethod(id, GetMethod(InstanceClass(id), method), actual_args, e)

\* ClassInstance::Call on the instance id
Call(id, method, actual_args, e) ==
    IF ~HasMethod(id, method, Len(actual_args))
    THEN Throw(e, "Method not found")
    ELSE CallMethod(id, GetMethod(InstanceClass(id), method), actual_args, e)

\* Object::Print of the value v on a stream os: the record it ends with
\* holds, as the String val, the text written to os (Number, String,
\* Bool::Print, Class::Print and ClassInstance::Print; an instance without
\* __str__ writes its address, here "@" and its number).  What __str__
\* prints goes to the stream of the Context, out.  operator-> on the empty
\* holder __str__ returned fails the assertion of AssertIsValid.
RECURSIVE PrintValue(_, _)
PrintValueAfter(e1) ==
    IF e1.flow # "normal" THEN e1
    ELSE IF e1.val.kind = "None" THEN Throw(e1, "AssertIsValid")
    ELSE PrintValue(e1.val, e1)

PrintValue(v, e) ==
    IF v.kind = "Number" THEN Yield(e, StringV(ToString(v.ival)))
    ELSE IF v.kind = "String" THEN Yield(e, StringV(v.sval))
    ELSE IF v.kind = "Bool" THEN Yield(e, StringV(IF v.ival = 1 THEN "True" ELSE "False"))
    ELSE IF v.kind = "Class" THEN Yield(e, StringV("Class " \o v.sval))
    ELSE IF HasMethod(v.ival, "__str__", 0)
         THEN PrintValueAfter(Call(v.ival, "__str__", <<>>, e))
    ELSE Yield(e, StringV("@" \o ToString(v.ival)))

\* holder->Print(out, context) with out the stream of the Context
PrintToContext(e2) ==
    IF e2.flow # "normal" THEN e2 ELSE [e2 EXCEPT !.out = @ \o e2.val.sval]

\* the loop of Print::Execute from argument i on
RECURSIVE PrintArgs(_, _, _)
PrintArgsNext(n, i, e2) ==
    IF e2.flow # "normal" THEN e2
    ELSE IF i # Len(n.kids) THEN PrintArgs(n, i + 1, [e2 EXCEPT !.out = @ \o " "])
    ELSE PrintArgs(n, i + 1, e2)

PrintArgsAfter(n, i, e1) ==
    IF e1.flow # "normal" THEN e1
    ELSE IF e1.val.kind # "None"
         THEN PrintArgsNext(n, i, PrintToContext(PrintValue(e1.val, e1)))
    ELSE PrintArgsNext(n, i, [e1 EXCEPT !.out = @ \o "None"])

PrintArgs(n, i, e) ==
    IF i > Len(n.kids) THEN Yield([e EXCEPT !.out = @ \o "\n"], NoneV)
    ELSE PrintArgsAfter(n, i, Execute(n.kids[i], e))

PrintExecute(n, e) == PrintArgs(n, 1, e)

MethodCallArgsAfter(n, id, r) ==
    IF r.e.flow # "normal" THEN r.e ELSE Call(id, n.name, r.vals, r.e)

MethodCallAfter(n, e1) ==
    IF e1.flow # "normal" THEN e1
    ELSE IF e1.val.kind = "ClassInstance"
         THEN MethodCallArgsAfter(n, e1.val.ival, ExecuteArgs(Tail(n.kids), e1, <<>>))
         ELSE Yield(e1, NoneV)

MethodCallExecute(n, e) == MethodCallAfter(n, Execute(n.kids[1], e))

\* the loop of Compound::Execute
RECURSIVE CompoundArgs(_, _)
CompoundArgsAfter(args, e1) ==
    IF e1.flow # "normal" THEN e1 ELSE CompoundArgs(Tail(args), e1)

CompoundArgs(args, e) ==
    IF args = <<>> THEN Yield(e, NoneV)
    ELSE CompoundArgsAfter(args, Execute(Head(args), e))

CompoundExecute(n, e) == CompoundArgs(n.kids, e)

ReturnAfter(e1) == IF e1.flow # "normal" THEN e1 ELSE [e1 EXCEPT !.flow = "return"]

ReturnExecute(n, e) == ReturnAfter(Execute(n.kids[1], e))

FieldAssignmentStore(n, id, e2) ==
    IF e2.flow # "normal" THEN e2
    ELSE [e2 EXCEPT !.heap[id] = Bind(@, n.name, e2.val)]

\* a FieldAssignment that executes rv_ whatever object_ yielded
FieldAssignmentDropped(e2) == IF e2.flow # "normal" THEN e2 ELSE Yield(e2, NoneV)

FieldAssignmentAfterEager(n, e1) ==
    IF e1.flow # "normal" THEN e1
    ELSE IF e1.val.kind = "ClassInstance"
         THEN FieldAssignmentStore(n, e1.val.ival, Execute(n.kids[2], e1))
         ELSE FieldAssignmentDropped(Execute(n.kids[2], e1))

FieldAssignmentAfter(n, e1) ==
    IF e1.flow # "normal" THEN e1
    ELSE IF e1.val.kind = "ClassInstance"
         THEN FieldAssignmentStore(n, e1.val.ival, Execute(n.kids[2], e1))
         ELSE Yield(e1, NoneV)

FieldAssignmentExecute(n, e) == FieldAssignmentAfter(n, Execute(n.kids[1], e))

IfElseAfter(n, e1) ==
    IF e1.flow # "normal" THEN e1
    ELSE IF IsTrue(e1.val) THEN Execute(n.kids[2], e1)
    ELSE IF Len(n.kids) > 2 THEN Execute(n.kids[3], e1)
    ELSE Yield(e1, NoneV)

IfElseExecute(n, e) == IfElseAfter(n, Execute(n.kids[1], e))

INIT_METHOD == "__init__"

NewInstanceInitAfter(n, e1) ==
    IF e1.flow # "normal" THEN e1 ELSE Yield(e1, InstanceV(n.num))

NewInstanceArgsAfter(n, r) ==
    IF r.e.flow # "normal" THEN r.e
    ELSE NewInstanceInitAfter(n, Call(n.num, INIT_METHOD, r.vals, r.e))

\* class_instance_ is the member of the node: the instance number n.num
NewInstanceExecute(n, e) ==
    IF HasMethod(n.num, INIT_METHOD, Len(n.kids))
    THEN NewInstanceArgsAfter(n, ExecuteArgs(n.kids, e, <<>>))
    ELSE Yield(e, InstanceV(n.num))

\* cls_ always holds a Class
ClassDefinitionExecute(n, e) ==
    Yield([e EXCEPT !.closure = Bind(@, n.name, ClassV(n.name))], ClassV(n.name))

\* the text Stringify found on its stream is the String PrintValue holds
StringifyAfter(e1) ==
    IF e1.flow # "normal" THEN e1
    ELSE IF e1.val.kind # "None" THEN PrintValue(e1.val, e1)
    ELSE Yield(e1, StringV("None"))

StringifyExecute(n, e) == StringifyAfter(Execute(n.kids[1], e))

ADD_METHOD == "__add__"

AddCall(id, e4) ==
    IF e4.flow # "normal" THEN e4 ELSE Call(id, ADD_METHOD, <<e4.val>>, e4)

\* the third if of Add::Execute: e3 is what lhs_->Execute, run again, ended with
AddAfterLhsAgain(n, e3) ==
    IF e3.flow # "normal" THEN e3
    ELSE IF e3.val.kind = "ClassInstance"
         THEN AddCall(e3.val.ival, Execute(n.kids[2], e3))
    ELSE Throw(e3, "Object addition operation error")

AddAfterRhs(n, lhs_holder, e2) ==
    IF e2.flow # "normal" THEN e2
    ELSE IF lhs_holder.kind = "Number" /\ e2.val.kind = "Number"
         THEN Yield(e2, NumberV(lhs_holder.ival + e2.val.ival))
    ELSE IF lhs_holder.kind = "String" /\ e2.val.kind = "String"
         THEN Yield(e2, StringV(lhs_holder.sval \o e2.val.sval))
    ELSE AddAfterLhsAgain(n, Execute(n.kids[1], e2))

AddAfterLhs(n, e1) ==
    IF e1.flow # "normal" THEN e1 ELSE AddAfterRhs(n, e1.val, Execute(n.kids[2], e1))

AddExecute(n, e) == AddAfterLhs(n, Execute(n.kids[1], e))

OrAfterRhs(e2) == IF e2.flow # "normal" THEN e2 ELSE Yield(e2, BoolV(IsTrue(e2.val)))

\* IsTrue(lhs) || ...: the right operand is executed when the left is false
OrAfterLhs(n, e1) ==
    IF e1.flow # "normal" THEN e1
    ELSE IF IsTrue(e1.val) THEN Yield(e1, BoolV(TRUE))
    ELSE OrAfterRhs(Execute(n.kids[2], e1))

OrExecute(n, e) == OrAfterLhs(n, Execute(n.kids[1], e))

AndAfterRhs(e2) == IF e2.flow # "normal" THEN e2 ELSE Yield(e2, BoolV(IsTrue(e2.val)))

\* IsTrue(lhs) && ...: the right operand is executed when the left is true
AndAfterLhs(n, e1) ==
    IF e1.flow # "normal" THEN e1
    ELSE IF ~IsTrue(e1.val) THEN Yield(e1, BoolV(FALSE))
    ELSE AndAfterRhs(Execute(n.kids[2], e1))

AndExecute(n, e) == AndAfterLhs(n, Execute(n.kids[1], e))

\* !IsTrue(argument)
NotAfter(e1) == IF e1.flow # "normal" THEN e1 ELSE Yield(e1, BoolV(~IsTrue(e1.val)))

NotExecute(n, e) == NotAfter(Execute(n.kids[1], e))

\* IsTrue(...) of what a Call returned
TruthOf(e1) == IF e1.flow # "normal" THEN e1 ELSE Yield(e1, BoolV(IsTrue(e1.val)))

\* ! applied to the bool a comparator returned
Negate(e1) == IF e1.flow # "normal" THEN e1 ELSE Yield(e1, BoolV(e1.val.ival = 0))

\* std::string operator< on the strings that are compared: their
\* lexicographic order
StringOrder == <<"", "a", "ab", "b">>
StringRank(w) == CHOOSE i \in 1..Len(StringOrder) : StringOrder[i] = w
StringLess(v, w) == StringRank(v) < StringRank(w)

\* the bool a comparator returns is the Bool val of the record
Equal(lhs, rhs, e) ==
    IF lhs.kind = "None" /\ rhs.kind = "None" THEN Yield(e, BoolV(TRUE))
    ELSE IF lhs.kind = "Number" /\ rhs.kind = "Number"
         THEN Yield(e, BoolV(lhs.ival = rhs.ival))
    ELSE IF lhs.kind = "String" /\ rhs.kind = "String"
         THEN Yield(e, BoolV(lhs.sval = rhs.sval))
    ELSE IF lhs.kind = "Bool" /\ rhs.kind = "Bool"
         THEN Yield(e, BoolV(lhs.ival = rhs.ival))
    ELSE IF lhs.kind = "ClassInstance" /\ HasMethod(lhs.ival, "__eq__", 1)
         THEN TruthOf(Call(lhs.ival, "__eq__", <<rhs>>, e))
    ELSE Throw(e, "Error compare (==) objects")

Less(lhs, rhs, e) ==
    IF lhs.kind = "Number" /\ rhs.kind = "Number"
    THEN Yield(e, BoolV(lhs.ival < rhs.ival))
    ELSE IF lhs.kind = "String" /\ rhs.kind = "String"
         THEN Yield(e, BoolV(StringLess(lhs.sval, rhs.sval)))
    ELSE IF lhs.kind = "Bool" /\ rhs.kind = "Bool"
         THEN Yield(e, BoolV(lhs.ival < rhs.ival))
    ELSE IF lhs.kind = "ClassInstance" /\ HasMethod(lhs.ival, "__lt__", 1)
         THEN TruthOf(Call(lhs.ival, "__lt__", <<rhs>>, e))
    ELSE Throw(e, "Error compare (<) objects")

NotEqual(lhs, rhs, e) == Negate(Equal(lhs, rhs, e))

\* Greater that takes !Less alone for its result
GreaterAfterLessOnly(lhs, rhs, e1) == Negate(e1)

\* !Less(...) && !Equal(...): Equal is called when Less returned false
GreaterAfterLess(lhs, rhs, e1) ==
    IF e1.flow # "normal" THEN e1
    ELSE IF e1.val.ival = 1 THEN Yield(e1, BoolV(FALSE))
    ELSE Negate(Equal(lhs, rhs, e1))

Greater(lhs, rhs, e) == GreaterAfterLess(lhs, rhs, Less(lhs, rhs, e))

LessOrEqual(lhs, rhs, e) == Negate(Greater(lhs, rhs, e))

GreaterOrEqual(lhs, rhs, e) == Negate(Less(lhs, rhs, e))

Comparators == {"Equal", "NotEqual", "Less", "Greater", "LessOrEqual", "GreaterOrEqual"}

\* the call cmp_(lhs, rhs, context)
Compare(cmp, lhs, rhs, e) ==
    CASE cmp = "Equal" -> Equal(lhs, rhs, e)
      [] cmp = "NotEqual" -> NotEqual(lhs, rhs, e)
      [] cmp = "Less" -> Less(lhs, rhs, e)
      [] cmp = "Greater" -> Greater(lhs, rhs, e)
      [] cmp = "LessOrEqual" -> LessOrEqual(lhs, rhs, e)
      [] cmp = "GreaterOrEqual" -> GreaterOrEqual(lhs, rhs, e)

ComparisonAfterRhs(n, lhs_holder, e2) ==
    IF e2.flow # "normal" THEN e2 ELSE Compare(n.name, lhs_holder, e2.val, e2)

ComparisonAfterLhs(n, e1) ==
    IF e1.flow # "normal" THEN e1
    ELSE ComparisonAfterRhs(n, e1.val, Execute(n.kids[2], e1))

ComparisonExecute(n, e) == ComparisonAfterLhs(n, Execute(n.kids[1], e))

\* MethodBody::Execute with a catch clause that drops the thrown value
MethodBodyAfterDropsValue(e1) ==
    IF e1.flow = "normal" THEN Yield(e1, NoneV)
    ELSE IF e1.flow = "return" THEN Yield(e1, NoneV)
    ELSE e1

\* the try block returned (None), or threw an ObjectHolder (caught), or
\* threw something else
MethodBodyAfter(e1) ==
    IF e1.flow = "normal" THEN Yield(e1, NoneV)
    ELSE IF e1.flow = "return" THEN Yield(e1, e1.val)
    ELSE e1

MethodBodyExecute(n, e) == MethodBodyAfter(Execute(n.kids[1], e))

\* the virtual call node->Execute(closure, context)
Execute(n, e) ==
    CASE n.op \in {"NumericConst", "StringConst", "BoolConst", "None"} -> ExecuteConst(n, e)
      [] n.op = "Assignment" -> AssignmentExecute(n, e)
      [] n.op = "VariableValue" -> VariableValueExecute(n, e)
      [] n.op = "Print" -> PrintExecute(n, e)
      [] n.op = "MethodCall" -> MethodCallExecute(n, e)
      [] n.op = "Compound" -> CompoundExecute(n, e)
      [] n.op = "Return" -> ReturnExecute(n, e)
      [] n.op = "FieldAssignment" -> FieldAssignmentExecute(n, e)
      [] n.op = "IfElse" -> IfElseExecute(n, e)
      [] n.op = "NewInstance" -> NewInstanceExecute(n, e)
      [] n.op = "MethodBody" -> MethodBodyExecute(n, e)
      [] n.op = "Stringify" -> StringifyExecute(n, e)
      [] n.op = "Add" -> AddExecute(n, e)
      [] n.op = "Or" -> OrExecute(n, e)
      [] n.op = "And" -> AndExecute(n, e)
      [] n.op = "Not" -> NotExecute(n, e)
      [] n.op = "Comparison" -> ComparisonExecute(n, e)
      [] n.op = "ClassDefinition" -> ClassDefinitionExecute(n, e)

(***************************************************************************)
(* The statements executed by the evaluator's specification.               *)
(***************************************************************************)
\* the number of NewInstance executions of one run
MaxNew == 2
\* the numbers 1..MaxField are assigned to fields
MaxField == 1

VarNames == {"x", "y"}
FieldNames == {"f"}

\* the statements method bodies are made of
Mark == PrintStmt(<<NumericConst(1)>>)
CallGet == MethodCall(NewInstanceNodes[1], "get", <<>>)
Atoms == {Mark, Return(NumericConst(1)), Return(CallGet), CallGet}
Conds == {NumericConst(0), NumericConst(1)}
Stmts ==
    Atoms
      \cup {IfElse(c, a, <<>>) : c \in Conds, a \in Atoms}
      \cup {IfElse(c, a, <<b>>) : c \in Conds, a \in Atoms,
                                  b \in {Mark, Return(NumericConst(2))}}
      \cup {Compound(<<a, b>>) : a \in Atoms, b \in Atoms}
Bodies ==
    Stmts \cup {Compound(<<s, a>>) : s \in Stmts, a \in {Mark, Return(NumericConst(3))}}

(***************************************************************************)
(* State.                                                                  *)
(* The lexer:                                                              *)
(*   lexer     the Lexer object and its stream                             *)
(*   ret       the token the last CurrentToken / NextToken call returned   *)
(*   calls     the number of NextToken calls made                          *)
(*   returned  the tokens handed to the consumer, in order: the current    *)
(*             token after construction, then what each NextToken returned *)
(* tokens_.back() on an empty buffer is undefined behaviour: the call      *)
(* either crashes the process (status "crashed") or returns some token     *)
(* (status "undefined", ret any of GarbageTokens).                         *)
(* The evaluator:                                                          *)
(*   closure   the Closure of the top level                                *)
(*   heap      the field map of the ClassInstance of every NewInstance     *)
(*             node                                                        *)
(*   node      the statement executed last                                 *)
(*   result    how its Execute ended: flow, and the value or the error     *)
(*   out       what it wrote to the stream of its Context, a fresh one     *)
(*             for every statement                                         *)
(*   yielded   the instances the NewInstance executions have yielded, in   *)
(*             order                                                       *)
(***************************************************************************)
VARIABLES lexer, ret, calls, returned, closure, heap, node, result, out, yielded

lexvars == <<lexer, ret, calls, returned>>
evalvars == <<closure, heap, node, result, out, yielded>>
vars == <<lexer, ret, calls, returned, closure, heap, node, result, out, yielded>>

NoNode == Node("NoNode", "", 0, <<>>, <<>>)

EvalIdle ==
    /\ closure = EmptyClosure
    /\ heap = [id \in InstanceIds |-> EmptyClosure]
    /\ node = NoNode
    /\ result = [flow |-> "normal", val |-> NoneV, err |-> ""]
    /\ out = ""
    /\ yielded = <<>>

GarbageTokens == {Tok("Eof"), Tok("Newline"), Tok("Indent"), IdTok("a")}

\* the outcomes of "return tokens_.back()" on the lexer s
Back(s) ==
    IF s.status # "ok" THEN {[status |-> s.status, tok |-> NoToken]}
    ELSE IF s.tokens_ # <<>>
    THEN {[status |-> "ok", tok |-> s.tokens_[Len(s.tokens_)]]}
    ELSE {[status |-> "crashed", tok |-> NoToken]}
           \cup {[status |-> "undefined", tok |-> t] : t \in GarbageTokens}

LexerOf(in) ==
    /\ lexer = Lexer(in)
    /\ ret = NoToken
    /\ calls = 0
    /\ returned = IF lexer.status = "ok" THEN lexer.tokens_ ELSE <<>>

Init == (\E in \in Inputs : LexerOf(in)) /\ EvalIdle

CurrentToken ==
    /\ lexer.status = "ok"
    /\ \E b \in Back(lexer) :
        /\ lexer' = [lexer EXCEPT !.status = b.status]
        /\ ret' = b.tok
    /\ UNCHANGED <<calls, returned>>
    /\ UNCHANGED evalvars

NextToken ==
    /\ lexer.status = "ok"
    /\ calls < MaxCalls
    /\ LET s == FindNextToken(lexer)
       IN \E b \in Back(s) :
            /\ lexer' = [s EXCEPT !.status = b.status]
            /\ ret' = b.tok
            /\ returned' = IF b.status = "ok" THEN Append(returned, b.tok)
                           ELSE returned
    /\ calls' = calls + 1
    /\ UNCHANGED evalvars

Next == CurrentToken \/ NextToken

Spec == Init /\ [][Next]_vars

(***************************************************************************)
(* The evaluator: one statement is executed at a time on the top-level     *)
(* closure.  An error, or a Return outside a method body, ends the run.    *)
(***************************************************************************)
EvalInit == LexerOf(<<>>) /\ EvalIdle

\* the state after the Execute that ended with e, of the statement n
Executed(n, e) ==
    /\ closure' = e.closure
    /\ heap' = e.heap
    /\ out' = e.out
    /\ result' = [flow |-> e.flow, val |-> e.val, err |-> e.err]
    /\ node' = n

\* statement->Execute(closure, context) on the state
ExecuteStatement(n) ==
    Executed(n, Execute(n, [closure |-> closure, heap |-> heap, out |-> "",
                            flow |-> "normal", val |-> NoneV, err |-> ""]))

\* x = Class(args), the NewInstance being the node k
StmtNewInstance ==
    /\ result.flow = "normal"
    /\ Len(yielded) < MaxNew
    /\ \E x \in VarNames, k \in InstanceIds :
        /\ ExecuteStatement(Assignment(x, NewInstanceNodes[k]))
        /\ yielded' = IF result'.flow = "normal" THEN Append(yielded, result'.val.ival)
                      ELSE yielded
    /\ UNCHANGED lexvars

\* x.f = v
StmtFieldAssignment ==
    /\ result.flow = "normal"
    /\ \E x \in VarNames, f \in FieldNames, v \in 1..MaxField :
        ExecuteStatement(FieldAssignment(VariableValue(x, <<>>), f, NumericConst(v)))
    /\ UNCHANGED <<yielded, lexvars>>

\* the execution of a method body
StmtMethodBody ==
    /\ result.flow = "normal"
    /\ \E b \in Bodies : ExecuteStatement(MethodBody(b))
    /\ UNCHANGED <<yielded, lexvars>>

EvalNext == StmtNewInstance \/ StmtFieldAssignment

EvalSpec == EvalInit /\ [][EvalNext]_vars

\* method bodies alone
BodyNext == StmtMethodBody

BodySpec == EvalInit /\ [][BodyNext]_vars

(***************************************************************************)
(* Calls: assignments bind the variables to numbers and to the instances   *)
(* of A, B and C; methods are called on an instance (ClassInstance::Call)  *)
(* and through a variable (MethodCall), fields are assigned through a      *)
(* variable.                                                               *)
(***************************************************************************)
\* the Context and the Closure a top-level statement is executed with
TopLevel ==
    [closure |-> closure, heap |-> heap, out |-> "",
     flow |-> "normal", val |-> NoneV, err |-> ""]

\* an operand that prints tag and yields the value of v
Operand(tag, v) == MethodCall(NewInstanceNodes[4], "say", <<StringConst(tag), v>>)

\* the variable of the top level that calls go through
CallVars == {"x"}
Receivers == {4, 5, 6}
MethodNames == {"m", "n", "k", "peek", "poke", "say", "none"}
\* the number the programs assign and pass
Numbers == {NumericConst(1)}
ArgLists ==
    {<<>>} \cup {<<a>> : a \in Numbers} \cup {<<Operand("R", a)>> : a \in Numbers}
      \cup {<<StringConst("t"), a>> : a \in Numbers}

\* the record, in node, of the call instance.Call(method, args): the
\* instance is num, the arguments are the values of kids
CallNode(id, method, args) == Node("Call", method, id, <<>>, args)

\* x = v and x = Class()
StmtAssignment ==
    /\ result.flow = "normal"
    /\ \E x \in CallVars, rv \in Numbers \cup {NewInstanceNodes[k] : k \in Receivers} :
        ExecuteStatement(Assignment(x, rv))
    /\ UNCHANGED <<yielded, lexvars>>

\* instance.Call(method, args)
StmtCall ==
    /\ result.flow = "normal"
    /\ \E id \in Receivers, method \in MethodNames,
          args \in {<<>>} \cup {<<a>> : a \in Numbers} \cup {<<a, b>> : a, b \in Numbers} :
        Executed(CallNode(id, method, args),
                 Call(id, method, [i \in 1..Len(args) |-> NumberV(args[i].num)], TopLevel))
    /\ UNCHANGED <<yielded, lexvars>>

\* x.method(args)
StmtMethodCall ==
    /\ result.flow = "normal"
    /\ \E x \in CallVars, method \in MethodNames, args \in ArgLists :
        ExecuteStatement(MethodCall(VariableValue(x, <<>>), method, args))
    /\ UNCHANGED <<yielded, lexvars>>

\* x.f = rv, rv an operand that prints
StmtFieldAssignmentOf ==
    /\ result.flow = "normal"
    /\ \E x \in CallVars, f \in FieldNames, a \in Numbers :
        ExecuteStatement(FieldAssignment(VariableValue(x, <<>>), f, Operand("R", a)))
    /\ UNCHANGED <<yielded, lexvars>>

CallNext == StmtAssignment \/ StmtCall \/ StmtMethodCall \/ StmtFieldAssignmentOf

CallSpec == EvalInit /\ [][CallNext]_vars

(***************************************************************************)
(* Expressions: Or, And and Add on operands that print L and R, Stringify  *)
(* and Print on one argument.                                              *)
(***************************************************************************)
\* None, numbers, strings and an instance of Num
Values ==
    {NoneConst, NumericConst(0), NumericConst(1), StringConst(""), StringConst("a"),
     NewInstanceNodes[7]}

\* and the Bools, a Class, an instance without __str__ and one whose
\* __str__ returns nothing
Printables ==
    Values \cup {BoolConst(TRUE), BoolConst(FALSE), ClassDefinition("A"),
                 NewInstanceNodes[1], NewInstanceNodes[8]}

StmtOr ==
    /\ result.flow = "normal"
    /\ \E a \in Values, b \in Values :
        ExecuteStatement(Or(Operand("L", a), Operand("R", b)))
    /\ UNCHANGED <<yielded, lexvars>>

StmtAnd ==
    /\ result.flow = "normal"
    /\ \E a \in Values, b \in Values :
        ExecuteStatement(And(Operand("L", a), Operand("R", b)))
    /\ UNCHANGED <<yielded, lexvars>>

StmtAdd ==
    /\ result.flow = "normal"
    /\ \E a \in Values, b \in Values :
        ExecuteStatement(Add(Operand("L", a), Operand("R", b)))
    /\ UNCHANGED <<yielded, lexvars>>

StmtStringify ==
    /\ result.flow = "normal"
    /\ \E a \in Printables : ExecuteStatement(Stringify(a))
    /\ UNCHANGED <<yielded, lexvars>>

StmtPrint ==
    /\ result.flow = "normal"
    /\ \E a \in Printables : ExecuteStatement(PrintStmt(<<a>>))
    /\ UNCHANGED <<yielded, lexvars>>

ExprNext == StmtOr \/ StmtAnd \/ StmtAdd \/ StmtStringify \/ StmtPrint

ExprSpec == EvalInit /\ [][ExprNext]_vars

(***************************************************************************)
(* Print on no, one and two arguments; the class A is defined, and read    *)
(* as the variable A.                                                      *)
(***************************************************************************)
PrintArguments == (Printables \ {ClassDefinition("A")}) \cup {VariableValue("A", <<>>)}

StmtClassDefinition ==
    /\ result.flow = "normal"
    /\ ExecuteStatement(ClassDefinition("A"))
    /\ UNCHANGED <<yielded, lexvars>>

\* print, print a and print a, b with a and b operands that print L and R
StmtPrintArgs ==
    /\ result.flow = "normal"
    /\ \E args \in {<<>>} \cup {<<a>> : a \in PrintArguments}
                     \cup {<<Operand("L", a), Operand("R", b)>> :
                             a \in PrintArguments, b \in PrintArguments} :
        ExecuteStatement(PrintStmt(args))
    /\ UNCHANGED <<yielded, lexvars>>

PrintNext == StmtClassDefinition \/ StmtPrintArgs

PrintSpec == EvalInit /\ [][PrintNext]_vars

(***************************************************************************)
(* Not and IfElse on a value of every variant: IsTrue decides.             *)
(***************************************************************************)
Conditions ==
    {NoneConst, NumericConst(-1), NumericConst(0), NumericConst(1), NumericConst(2),
     StringConst(""), StringConst("a"), BoolConst(TRUE), BoolConst(FALSE),
     VariableValue("A", <<>>)}
      \cup {NewInstanceNodes[id] : id \in InstanceIds}

StmtNot ==
    /\ result.flow = "normal"
    /\ \E a \in Conditions : ExecuteStatement(Not(a))
    /\ UNCHANGED <<yielded, lexvars>>

\* if a: "t" else: "e", and if a: "t" without else
StmtIfElse ==
    /\ result.flow = "normal"
    /\ \E a \in Conditions, else_body \in {<<>>, <<StringConst("e")>>} :
        ExecuteStatement(IfElse(a, StringConst("t"), else_body))
    /\ UNCHANGED <<yielded, lexvars>>

TruthNext == StmtClassDefinition \/ StmtNot \/ StmtIfElse

TruthSpec == EvalInit /\ [][TruthNext]_vars

(***************************************************************************)
(* Dotted names: variables are bound to numbers and instances, fields are  *)
(* assigned, and x, x.f, x.f.f and x.v are read.                           *)
(***************************************************************************)
DottedIds == {<<>>, <<"f">>, <<"f", "f">>, <<"v">>}

StmtVariableValue ==
    /\ result.flow = "normal"
    /\ \E x \in VarNames, dotted_ids \in DottedIds :
        ExecuteStatement(VariableValue(x, dotted_ids))
    /\ UNCHANGED <<yielded, lexvars>>

PathNext == StmtAssignment \/ StmtFieldAssignment \/ StmtVariableValue

PathSpec == EvalInit /\ [][PathNext]_vars

(***************************************************************************)
(* Comparisons of None, numbers, strings, Bools and instances.             *)
(***************************************************************************)
\* the numbers 0..MaxNumber are compared
MaxNumber == 1

\* Base has no __lt__, Num and Odd have __lt__ and no __eq__(self, o)
Comparables ==
    {NoneConst, BoolConst(TRUE), BoolConst(FALSE)}
      \cup {NumericConst(v) : v \in 0..MaxNumber}
      \cup {StringConst(StringOrder[i]) : i \in 1..Len(StringOrder)}
      \cup {NewInstanceNodes[1], NewInstanceNodes[7], NewInstanceNodes[8]}

StmtComparison ==
    /\ result.flow = "normal"
    /\ \E cmp \in Comparators, a \in Comparables, b \in Comparables :
        ExecuteStatement(Comparison(cmp, a, b))
    /\ UNCHANGED <<yielded, lexvars>>

CmpNext == StmtComparison

CmpSpec == EvalInit /\ [][CmpNext]_vars

(***************************************************************************)
(* Notions the properties of the lexer are stated with.                    *)
(***************************************************************************)
StructuralTypes == {"Newline", "Indent", "Dedent", "Eof"}

\* the number of tokens of type t among the first n tokens of toks
RECURSIVE CountType(_, _, _)
CountType(toks, n, t) ==
    IF n = 0 THEN 0
    ELSE CountType(toks, n - 1, t) + (IF toks[n].type = t THEN 1 ELSE 0)

\* the level communicated by the first n tokens of toks
Level(toks, n) == CountType(toks, n, "Indent") - CountType(toks, n, "Dedent")

HasEof(toks) == \E i \in DOMAIN toks : toks[i].type = "Eof"

\* the position of the first character of the line the position p lies in
RECURSIVE LineStart(_, _)
LineStart(buf, p) ==
    IF p <= 1 THEN 1
    ELSE IF buf[p - 1] = NL THEN p
    ELSE LineStart(buf, p - 1)

\* the number of spaces from the position p on
RECURSIVE SpacesFrom(_, _)
SpacesFrom(buf, p) ==
    IF p <= Len(buf) /\ buf[p] = SP THEN 1 + SpacesFrom(buf, p + 1) ELSE 0

\* the first position after the line that starts at p (after its newline)
RECURSIVE LineEnd(_, _)
LineEnd(buf, p) ==
    IF p > Len(buf) THEN p
    ELSE IF buf[p] = NL THEN p + 1
    ELSE LineEnd(buf, p + 1)

\* the line that starts at p holds only spaces, or only spaces and a comment
BlankLine(buf, p) ==
    LET q == p + SpacesFrom(buf, p)
    IN q > Len(buf) \/ buf[q] = NL \/ buf[q] = HASH

\* every line from p on is indented by an even number of spaces
RECURSIVE EvenIndented(_, _)
EvenIndented(buf, p) ==
    IF p > Len(buf) THEN TRUE
    ELSE /\ SpacesFrom(buf, p) % NUM_OF_SPACES_IN_INDENT = 0
         /\ EvenIndented(buf, LineEnd(buf, p))

\* buf from p on without its blank lines
RECURSIVE DeleteBlankLines(_, _)
DeleteBlankLines(buf, p) ==
    IF p > Len(buf) THEN <<>>
    ELSE LET q == LineEnd(buf, p)
         IN (IF BlankLine(buf, p) THEN <<>> ELSE SubSeq(buf, p, q - 1))
              \o DeleteBlankLines(buf, q)

\* the tokens up to the first Eof
RECURSIVE UpToEof(_)
UpToEof(toks) ==
    IF toks = <<>> THEN <<>>
    ELSE IF Head(toks).type = "Eof" THEN <<Head(toks)>>
    ELSE <<Head(toks)>> \o UpToEof(Tail(toks))

\* the token handed out last is the first token of its line, an Id: the
\* characters before it on its line are spaces only
FirstIdOfLine ==
    /\ lexer.status = "ok"
    /\ lexer.tokens_ # <<>>
    /\ LET t == lexer.tokens_[Len(lexer.tokens_)]
           start == lexer.pos - Len(t.sval)
       IN /\ t.type = "Id"
          /\ start >= 1
          /\ \A i \in start..(lexer.pos - 1) : isalpha(lexer.buf[i])
          /\ LET ls == LineStart(lexer.buf, start)
             IN ls + SpacesFrom(lexer.buf, ls) = start

\* the leading spaces of the line of that token
LeadingSpaces ==
    LET t == lexer.tokens_[Len(lexer.tokens_)]
    IN SpacesFrom(lexer.buf, LineStart(lexer.buf, lexer.pos - Len(t.sval)))

(***************************************************************************)
(* Properties of the lexer, checked under Spec.                            *)
(***************************************************************************)

\* C1: on every input, the constructor and the NextToken calls hand out Eof
\* after finitely many calls: once MaxCalls calls were made (more than the
\* tokens of any input of the model), Eof is among the tokens handed out.
C1_EofAfterFinitelyManyCalls ==
    (lexer.status = "ok" /\ calls = MaxCalls) => HasEof(returned)

\* C2: once Eof was handed out, every later NextToken hands out Eof.
C2_EofIsIdempotent ==
    \A i \in DOMAIN returned : \A j \in DOMAIN returned :
        (i < j /\ returned[i].type = "Eof") => returned[j].type = "Eof"

\* C3: on an input whose lines are indented by multiples of two spaces, as
\* many Dedent as Indent tokens precede the first Eof token.
C3_IndentsBalancedAtEof ==
    EvenIndented(lexer.buf, 1) =>
        \A i \in DOMAIN lexer.tokens_ :
            lexer.tokens_[i].type = "Eof" => Level(lexer.tokens_, i) = 0

\* C4: when the first token of a line indented by k spaces (k even) is
\* handed out, the level communicated by Indent and Dedent tokens is k / 2.
C4_LevelAtFirstTokenOfLine ==
    (FirstIdOfLine /\ LeadingSpaces % NUM_OF_SPACES_IN_INDENT = 0) =>
        Level(lexer.tokens_, Len(lexer.tokens_))
            = LeadingSpaces \div NUM_OF_SPACES_IN_INDENT

\* C5: lines of spaces only, or of spaces and a comment only, yield no
\* token and leave the indentation alone: the tokens of an input (without
\* string literals) are the tokens of the input without these lines.
C5_BlankLinesAreInvisible ==
    (lexer.status = "ok" /\ calls = MaxCalls
       /\ \A i \in DOMAIN lexer.buf : lexer.buf[i] \notin {QUOTE, APOS}) =>
        LET other == Run(Lexer(DeleteBlankLines(lexer.buf, 1)), MaxCalls)
        IN UpToEof(lexer.tokens_) = UpToEof(other.tokens_)

\* C6: in the tokens handed out, the first is not Newline, no Newline
\* follows a Newline, and the tokens of a line are followed by a Newline.
C6_OneNewlinePerLine ==
    /\ returned # <<>> => returned[1].type # "Newline"
    /\ \A i \in DOMAIN returned :
        i < Len(returned) =>
            /\ returned[i].type = "Newline" => returned[i + 1].type # "Newline"
            /\ returned[i].type \notin StructuralTypes =>
                 (returned[i + 1].type \notin StructuralTypes
                    \/ returned[i + 1].type = "Newline")

\* C7: the constructor and every NextToken call append exactly one token to
\* the buffer, whatever the input.
C7_OneTokenPerCall ==
    lexer.status \in {"ok", "crashed", "undefined"} =>
        Len(lexer.tokens_) = calls + 1

\* C8: every call returns a token: none throws, none loops for ever.
C8_CallsReturn == lexer.status \notin {"hang", "out_of_range"}

\* C24: the level cur_indent is the number of Indent tokens emitted less
\* the number of Dedent tokens emitted, after every emitted token it is 0
\* or more, so that no Dedent is emitted at level 0.
C24_LevelIsIndentsLessDedents ==
    /\ lexer.cur_indent = Level(lexer.tokens_, Len(lexer.tokens_))
    /\ \A i \in DOMAIN lexer.tokens_ : Level(lexer.tokens_, i) >= 0

\* a line two levels deep was left for level 0: two Indents, two Dedents
C24_Witness ==
    /\ CountType(lexer.tokens_, Len(lexer.tokens_), "Indent") = 2
    /\ CountType(lexer.tokens_, Len(lexer.tokens_), "Dedent") = 2
    /\ lexer.cur_indent = 0

(***************************************************************************)
(* Properties of NewInstance, checked under EvalSpec.                      *)
(***************************************************************************)
\* the statement executed last is x = Class(args) and it ended normally
NewInstanceDone ==
    /\ node.op = "Assignment"
    /\ node.kids[1].op = "NewInstance"
    /\ result.flow = "normal"

\* C9: every execution of a NewInstance node yields a new instance: no
\* instance is yielded twice, and without a matching __init__ the instance
\* yielded has no field.
C9_NewInstanceIsFresh ==
    /\ \A i \in DOMAIN yielded : \A j \in DOMAIN yielded :
          i # j => yielded[i] # yielded[j]
    /\ (NewInstanceDone
          /\ ~HasMethod(node.kids[1].num, INIT_METHOD, Len(node.kids[1].kids))) =>
            heap[result.val.ival] = EmptyClosure

(***************************************************************************)
(* Properties of MethodBody, checked under BodySpec.  What a statement of  *)
(* Bodies is to do is told from its text: whether a Return is reached,     *)
(* with which value, and what is printed before it.                        *)
(***************************************************************************)
Falls(text) == [returns |-> FALSE, val |-> NoneV, out |-> text]

RECURSIVE Outcome(_)

\* the statements args one after the other, up to the first that returns
RECURSIVE OutcomeOfList(_)
OutcomeOfList(args) ==
    IF args = <<>> THEN Falls("")
    ELSE LET first == Outcome(Head(args))
         IN IF first.returns THEN first
            ELSE LET rest == OutcomeOfList(Tail(args))
                 IN [rest EXCEPT !.out = first.out \o @]

\* the value of an expression of Bodies: a number, or get() that returns 7
ValueOf(x) == IF x.op = "NumericConst" THEN NumberV(x.num) ELSE NumberV(7)

Outcome(n) ==
    CASE n.op = "Print" -> Falls(ToString(n.kids[1].num) \o "\n")
      [] n.op = "MethodCall" -> Falls("")
      [] n.op = "Return" -> [returns |-> TRUE, val |-> ValueOf(n.kids[1]), out |-> ""]
      [] n.op = "IfElse" ->
            IF n.kids[1].num # 0 THEN Outcome(n.kids[2])
            ELSE IF Len(n.kids) > 2 THEN Outcome(n.kids[3])
            ELSE Falls("")
      [] n.op = "Compound" -> OutcomeOfList(n.kids)

\* C10: MethodBody yields the value of the first Return reached in its
\* body, executes nothing after it, and yields None when none is reached;
\* the Return of a nested call ends that call only.
C10_MethodBodyYieldsFirstReturn ==
    node.op = "MethodBody" =>
        LET o == Outcome(node.kids[1])
        IN /\ result.flow = "normal"
           /\ result.val = (IF o.returns THEN o.val ELSE NoneV)
           /\ out = o.out

\* a body  if 1: return 1 else: ... ; print 1  yielded 1 and printed nothing
C10_Witness ==
    /\ node.op = "MethodBody"
    /\ node.kids[1].op = "Compound"
    /\ node.kids[1].kids[1].op = "IfElse"
    /\ node.kids[1].kids[1].kids[1].num = 1
    /\ node.kids[1].kids[1].kids[2].op = "Return"
    /\ node.kids[1].kids[2] = Mark
    /\ result.val = NumberV(1)
    /\ out = ""

(***************************************************************************)
(* Method resolution, stated on the class table alone.                     *)
(***************************************************************************)
\* the chain class -> parent -> grandparent ...
RECURSIVE Chain(_)
Chain(c) == IF c = "" THEN <<>> ELSE <<c>> \o Chain(ClassParent(c))

\* the positions on the chain of c of the classes that define name
Definers(c, name) == {i \in 1..Len(Chain(c)) : name \in DOMAIN ClassMethods(Chain(c)[i])}
Defined(c, name) == Definers(c, name) # {}
Nearest(c, name) ==
    Chain(c)[CHOOSE i \in Definers(c, name) : \A j \in Definers(c, name) : i <= j]
NearestMethod(c, name) == ClassMethods(Nearest(c, name))[name]
Resolves(c, name, count) ==
    Defined(c, name) /\ Len(NearestMethod(c, name).formal_params) = count

\* a closure that holds self and the formal parameters, bound by position
SelfAndParams(id, formal_params, args) ==
    [p \in {"self"} \cup {formal_params[i] : i \in 1..Len(formal_params)} |->
       IF p = "self" THEN InstanceV(id)
       ELSE args[CHOOSE i \in 1..Len(formal_params) : formal_params[i] = p]]

\* the value of an argument: a constant, or an operand that prints
RECURSIVE ArgValue(_)
ArgValue(a) ==
    IF a.op = "NumericConst" THEN NumberV(a.num)
    ELSE IF a.op = "StringConst" THEN StringV(a.name)
    ELSE IF a.op = "BoolConst" THEN BoolV(a.num = 1)
    ELSE IF a.op = "None" THEN NoneV
    ELSE IF a.op = "NewInstance" THEN InstanceV(a.num)
    ELSE ArgValue(a.kids[3])

ArgValues(args) == [i \in 1..Len(args) |-> ArgValue(args[i])]

\* C11: a Call of a name no class on the chain defines, or whose nearest
\* definition takes another number of parameters, fails with "Method not
\* found", prints nothing and leaves the fields and the closure alone; any
\* other Call ends as the body of the nearest definition does.
C11_Step ==
    node'.op = "Call" =>
      IF ~Resolves(InstanceClass(node'.num), node'.name, Len(node'.kids))
      THEN /\ result' = [flow |-> "error", val |-> NoneV, err |-> "Method not found"]
           /\ out' = ""
           /\ heap' = heap
           /\ closure' = closure
      ELSE LET m == NearestMethod(InstanceClass(node'.num), node'.name)
               b == Execute(m.body,
                            [TopLevel EXCEPT !.closure =
                               SelfAndParams(node'.num, m.formal_params,
                                             ArgValues(node'.kids))])
           IN /\ result' = [flow |-> b.flow, val |-> b.val, err |-> b.err]
              /\ out' = b.out
              /\ heap' = b.heap

C11_CallFailsOrExecutes == [][C11_Step]_vars

\* C.m() is called: B.m takes one parameter, A.m none
C11_Witness ==
    /\ node = CallNode(6, "m", <<>>)
    /\ result.err = "Method not found"

\* the instance a MethodCall or a FieldAssignment goes through, by the
\* closure before the step
Target(n) == closure[n.kids[1].name]
ThroughVariable(n) ==
    /\ n.op \in {"MethodCall", "FieldAssignment"}
    /\ n.kids[1].op = "VariableValue"
    /\ n.kids[1].name \in DOMAIN closure

\* C12: a method body sees self and its parameters only, and what it
\* assigns stays in its own closure: peek finds no x though the caller
\* has one, poke yields its argument and leaves the caller's x alone, say
\* gets its two arguments in order.
C12_Step ==
    /\ node'.op = "Call" => closure' = closure
    /\ (ThroughVariable(node') /\ node'.op = "MethodCall"
          /\ Target(node').kind = "ClassInstance") =>
         /\ closure' = closure
         /\ (node'.name = "peek" /\ Len(node'.kids) = 1) =>
              /\ result'.flow = "error"
              /\ result'.err = "Variable is not found"
         /\ (node'.name = "poke" /\ Len(node'.kids) = 2) =>
              /\ result'.flow = "normal"
              /\ result'.val = ArgValue(node'.kids[2])
         /\ (node'.name = "say" /\ Len(node'.kids) = 3) =>
              /\ result'.flow = "normal"
              /\ result'.val = ArgValue(node'.kids[3])
              /\ out' = ArgValue(node'.kids[2]).sval \o "\n"

C12_BodyClosureIsFresh == [][C12_Step]_vars

\* x.poke(1) has returned 1 and x still is the instance
C12_Witness ==
    /\ node.op = "MethodCall"
    /\ node.name = "poke"
    /\ result.flow = "normal"
    /\ result.val.kind = "Number"
    /\ "x" \in DOMAIN closure
    /\ closure["x"].kind = "ClassInstance"

\* C13: GetMethod yields the definition of the nearest class on the chain
\* that defines the name, whatever the parameter counts, and a Call that
\* succeeds prints the tag of that definition.
C13_NearestDefinitionWins ==
    node.op = "Call" =>
      /\ GetMethod(InstanceClass(node.num), node.name) =
           IF Defined(InstanceClass(node.num), node.name)
           THEN NearestMethod(InstanceClass(node.num), node.name)
           ELSE NoMethod
      /\ (result.flow = "normal" /\ node.name \in {"m", "n", "k"}) =>
           out = Nearest(InstanceClass(node.num), node.name) \o "." \o node.name \o "\n"
      /\ (Defined(InstanceClass(node.num), node.name)
            /\ Len(NearestMethod(InstanceClass(node.num), node.name).formal_params)
                 # Len(node.kids)) => result.flow = "error"

\* C.m(1) ran B.m, which shadows A.m
C13_Witness ==
    /\ node.op = "Call"
    /\ node.num = 6
    /\ node.name = "m"
    /\ Len(node.kids) = 1
    /\ out = "B.m\n"

\* C20: through a variable that holds no instance, FieldAssignment and
\* MethodCall yield None, raise nothing, execute neither rv_ nor the
\* arguments and change no closure and no field; through an instance,
\* FieldAssignment stores the value of rv_ under the field name and yields
\* it.
C20_Step ==
    /\ (ThroughVariable(node') /\ Target(node').kind # "ClassInstance") =>
         /\ result' = [flow |-> "normal", val |-> NoneV, err |-> ""]
         /\ closure' = closure
         /\ heap' = heap
         /\ out' = ""
    /\ (ThroughVariable(node') /\ node'.op = "FieldAssignment"
          /\ Target(node').kind = "ClassInstance") =>
         /\ result' = [flow |-> "normal", val |-> ArgValue(node'.kids[2]), err |-> ""]
         /\ heap' = [heap EXCEPT ![Target(node').ival] =
                       Bind(@, node'.name, ArgValue(node'.kids[2]))]
         /\ closure' = closure

C20_NonInstanceYieldsNone == [][C20_Step]_vars

\* x.f = ... was executed with x a number
C20_Witness ==
    /\ node.op = "FieldAssignment"
    /\ "x" \in DOMAIN closure
    /\ closure["x"].kind = "Number"
    /\ result.val = NoneV
    /\ result.flow = "normal"

\* the closure, fields and stream after a step
After ==
    [closure |-> closure', heap |-> heap', out |-> "",
     flow |-> "normal", val |-> NoneV, err |-> ""]

\* the instance id has the value v in its field f after the step, no other
\* instance has changed, and every variable that holds the instance reads v
\* as its field f
WrittenThroughSelf(id, f, v) ==
    /\ result'.flow = "normal"
    /\ heap' = [heap EXCEPT ![id] = Bind(@, f, v)]
    /\ \A x \in DOMAIN closure' :
         closure'[x] = InstanceV(id) =>
           VariableValueExecute(VariableValue(x, <<f>>), After).val = v

\* C21: self is the instance the method is called on: n(self, a), which
\* assigns self.f = a, called on an instance or through a variable that
\* holds it, leaves a in the field f of that very instance, where every
\* holder of the instance finds it, and changes no other instance.
C21_Step ==
    /\ (node'.op = "Call" /\ node'.name = "n" /\ Len(node'.kids) = 1) =>
         WrittenThroughSelf(node'.num, "f", ArgValue(node'.kids[1]))
    /\ (ThroughVariable(node') /\ node'.op = "MethodCall"
          /\ Target(node').kind = "ClassInstance"
          /\ node'.name = "n" /\ Len(node'.kids) = 2) =>
         WrittenThroughSelf(Target(node').ival, "f", ArgValue(node'.kids[2]))

C21_SelfIsTheInstance == [][C21_Step]_vars

\* x.n(1) has returned and x.f is 1
C21_Witness ==
    /\ node.op = "MethodCall"
    /\ node.name = "n"
    /\ result.flow = "normal"
    /\ "x" \in DOMAIN closure
    /\ closure["x"].kind = "ClassInstance"
    /\ "f" \in DOMAIN heap[closure["x"].ival]
    /\ heap[closure["x"].ival]["f"] = NumberV(1)

RECURSIVE PathExists(_, _)
PathExists(v, ids) ==
    \/ ids = <<>>
    \/ /\ v.kind = "ClassInstance"
       /\ Head(ids) \in DOMAIN heap[v.ival]
       /\ PathExists(heap[v.ival][Head(ids)], Tail(ids))

\* C16: VariableValue fails when the name is not bound, and fails when a
\* dotted segment is read from a value that is no instance or from an
\* instance without that field; it changes no field.
C16_Step ==
    node'.op = "VariableValue" =>
      /\ heap' = heap
      /\ closure' = closure
      /\ node'.name \notin DOMAIN closure =>
           /\ result'.flow = "error"
           /\ result'.err = "Variable is not found"
      /\ (node'.name \in DOMAIN closure
            /\ ~PathExists(closure[node'.name], node'.ids)) => result'.flow = "error"

C19_StringifyIsPrint ==
    node.op = "Stringify" =>
      /\ result.flow = "normal"
      /\ result.val.kind = "String"
      /\ result.val.sval \o "\n" = Execute(PrintStmt(node.kids), TopLevel).out

\* the value of an argument of Print by the closure before the step
RECURSIVE ValueIn(_)
ValueIn(a) ==
    IF a.op = "VariableValue" THEN closure[a.name]
    ELSE IF a.op = "MethodCall" THEN ValueIn(a.kids[3])
    ELSE ArgValue(a)

\* the names an argument reads are bound
RECURSIVE Bound(_)
Bound(a) ==
    IF a.op = "VariableValue" THEN a.name \in DOMAIN closure
    ELSE IF a.op = "MethodCall" THEN Bound(a.kids[3])
    ELSE TRUE

\* the printed form of a value: an instance with __str__(self) prints as
\* what __str__ returns does, one without as its address
PrintedForm(v) ==
    CASE v.kind = "None" -> "None"
      [] v.kind = "Number" -> ToString(v.ival)
      [] v.kind = "String" -> v.sval
      [] v.kind = "Bool" -> IF v.ival = 1 THEN "True" ELSE "False"
      [] v.kind = "Class" -> "Class " \o v.sval
      [] v.kind = "ClassInstance" ->
           IF ~Resolves(InstanceClass(v.ival), "__str__", 0) THEN "@" \o ToString(v.ival)
           ELSE IF Nearest(InstanceClass(v.ival), "__str__") = "Num" THEN "hi"
           ELSE "None"

\* what the evaluation of the argument a writes: the tag of an operand
Trace(a) == IF a.op = "MethodCall" THEN a.kids[2].name \o "\n" ELSE ""

\* the text of print args[i], ..., args[Len(args)]
RECURSIVE PrintedFrom(_, _)
PrintedFrom(args, i) ==
    IF i > Len(args) THEN "\n"
    ELSE Trace(args[i]) \o PrintedForm(ValueIn(args[i]))
           \o (IF i < Len(args) THEN " " ELSE "") \o PrintedFrom(args, i + 1)

\* C22: Print executes its arguments in order, once each, and writes the
\* printed form of each (None for the empty holder), one space between two
\* arguments and one newline at the end; it yields None and leaves the
\* closure and the fields alone.
C22_Step ==
    (node'.op = "Print" /\ \A i \in DOMAIN node'.kids : Bound(node'.kids[i])) =>
      /\ out' = PrintedFrom(node'.kids, 1)
      /\ result' = [flow |-> "normal", val |-> NoneV, err |-> ""]
      /\ closure' = closure
      /\ heap' = heap

C22_PrintFormat == [][C22_Step]_vars

\* the values the language takes for false
Falsy(v) ==
    \/ v \in {NoneV, NumberV(0), StringV(""), BoolV(FALSE)}
    \/ v.kind \in {"Class", "ClassInstance"}

\* C23: IsTrue is false of None, of the number 0, of the empty string, of
\* False and of every class and instance, whatever its methods and fields,
\* true of every other number (negative ones too), string and of True;
\* it never fails.
C23_IsTrueByVariant ==
    /\ (node.op = "Not" /\ Bound(node.kids[1])) =>
         result = [flow |-> "normal", val |-> BoolV(Falsy(ValueIn(node.kids[1]))), err |-> ""]
    /\ (node.op = "IfElse" /\ Bound(node.kids[1])) =>
         /\ result.flow = "normal"
         /\ result.val = IF ~Falsy(ValueIn(node.kids[1])) THEN StringV("t")
                         ELSE IF Len(node.kids) = 3 THEN StringV("e") ELSE NoneV

C23_Witness ==
    /\ node = Not(NumericConst(-1))
    /\ result = [flow |-> "normal", val |-> BoolV(FALSE), err |-> ""]

Primitive(v) == v.kind \in {"Number", "String", "Bool"}
Holds(e1) == e1.flow = "normal" /\ e1.val = BoolV(TRUE)
Fails(e1) == e1.flow = "normal" /\ e1.val = BoolV(FALSE)
Opposite(e1, e2) == (Holds(e1) /\ Fails(e2)) \/ (Fails(e1) /\ Holds(e2))

\* the relations of C17 on the values x and y
SameVariantLaws(x, y) ==
    /\ Holds(Equal(x, x, TopLevel))
    /\ Fails(Less(x, x, TopLevel))
    /\ Cardinality({cmp \in {"Less", "Equal", "Greater"} :
                      Holds(Compare(cmp, x, y, TopLevel))}) = 1
    /\ \A cmp \in {"Less", "Equal", "Greater"} :
         Holds(Compare(cmp, x, y, TopLevel)) \/ Fails(Compare(cmp, x, y, TopLevel))
    /\ Opposite(GreaterOrEqual(x, y, TopLevel), Less(x, y, TopLevel))
    /\ Opposite(LessOrEqual(x, y, TopLevel), Greater(x, y, TopLevel))
    /\ Opposite(NotEqual(x, y, TopLevel), Equal(x, y, TopLevel))

\* C17: on two values of one primitive variant the six comparators obey
\* the laws of an order (equal is reflexive, less irreflexive, exactly one
\* of less, equal, greater holds, and the other three are the negations);
\* on values of two variants, or None and a value, equal and less fail.
C17_ComparisonLaws ==
    node.op = "Comparison" =>
      LET x == ArgValue(node.kids[1])
          y == ArgValue(node.kids[2])
      IN /\ (Primitive(x) /\ x.kind = y.kind) =>
              /\ SameVariantLaws(x, y)
              /\ result.flow = "normal"
              /\ result.val = Compare(node.name, x, y, TopLevel).val
         /\ (x.kind # y.kind /\ {x.kind, y.kind} \subseteq {"None", "Number", "String", "Bool"}) =>
              /\ Equal(x, y, TopLevel).flow = "error"
              /\ Less(x, y, TopLevel).flow = "error"
              /\ node.name \in {"Equal", "Less"} => result.flow = "error"

\* "b" > "ab" was evaluated
C17_Witness ==
    /\ node = Comparison("Greater", StringConst("b"), StringConst("ab"))
    /\ result.val = BoolV(TRUE)

\* C18: with an instance on the left whose class has __lt__(self, o) and
\* no __eq__(self, o), Equal, NotEqual, Greater and LessOrEqual fail for
\* every right operand, Less yields the truth of what __lt__ returns (its
\* argument, in Num) and GreaterOrEqual the negation.
C18_OnlyLessDefined ==
    (node.op = "Comparison" /\ node.kids[1].op = "NewInstance"
       /\ Resolves(node.kids[1].name, "__lt__", 1)
       /\ ~Resolves(node.kids[1].name, "__eq__", 1)) =>
      IF node.name \in {"Equal", "NotEqual", "Greater", "LessOrEqual"}
      THEN result.flow = "error"
      ELSE /\ result.flow = "normal"
           /\ result.val = BoolV(IF node.name = "Less"
                                 THEN IsTrue(ArgValue(node.kids[2]))
                                 ELSE ~IsTrue(ArgValue(node.kids[2])))

=============================================================================
